---------------------------- MODULE Spec2Model ----------------------------
(***************************************************************************)
(* Harmony Compiler intermediate paper tape tools of pdp-1-boc:            *)
(*   src/verify/decodehcint.c  ("decode": tape -> text, checks only)       *)
(*   src/tweak/tweak.c         ("tweak": tape -> tape, tempo and gaps)     *)
(* Both read 18-bit words as three marked 8-bit frames, section by section *)
(* (NOTES then BARS) for up to four voices.                                *)
(***************************************************************************)
EXTENDS Integers, Sequences, FiniteSets, TLC

VARIABLES
    consumer,           \* "decode" | "tweak" | "none" (function harness)
    argc,               \* argument count (tweak.c:249)
    argv,               \* the tempo and gap arguments as given
    tempo,              \* tweak: uint32 tempo, NO_TEMPO when not given
    gap_length,         \* tweak: inter-voice gap written between voices
    tape,               \* the input file, a sequence of frames 0..255
    pos,                \* input file position (frames consumed)
    seen,               \* highest input position any fgetc has fetched
    out,                \* tweak: the output file, a sequence of frames
    pc,                 \* where main and its callee stand
    status,             \* "running", "ok" (return 0), or the error met
    voice,              \* main's voice counter
    word_count,         \* words read (decode: whole run, tweak: section)
    part_word_count,    \* section local
    total_word_count,   \* section local, UNINIT until the count is read
    checksum,           \* section local: fold of the source data words
    new_checksum,       \* copy_notes local: fold of the written data words
    notes,              \* decode: the written prefix of the note buffer
    notes_count,        \* decode: main's notes_count
    section,            \* history: <<voice, "notes"|"bars">> in progress
    secGap,             \* history: gap_frames before the section's count
    secWords,           \* history: the words read in this section
    folded,             \* history: the words folded into checksum
    compared,           \* history: <<expected, calculated>> pairs verified
    secOut,             \* history: the words ppb wrote in this section
    eofMet,             \* history: the places where rpb returned EOF
    walked,             \* history: note buffer indices the last bar read
    parsed,             \* history: words handed to parse_note this section
    events,             \* history: sections entered and verified, in order
    outMark,            \* history: Len(out) when the section was entered
    meta,               \* history: how the tape was built
    fin,                \* function harness: the arguments
    fout                \* function harness: the results

vars == << consumer, argc, argv, tempo, gap_length, tape, pos, seen, out, pc,
           status, voice, word_count, part_word_count, total_word_count,
           checksum, new_checksum, notes, notes_count, section, secGap,
           secWords, folded, compared, secOut, eofMet, walked, parsed,
           events, outMark, meta, fin, fout >>

---------------------------------------------------------------------------
(* Program constants *)

NOTES_BUFFER_SIZE == 8192
DEFAULT_GAP_LENGTH == 18
MAX_VOICE == 4
WORD_MASK == \o777777
SENTINEL == \o600000
TEMPO_BITS == \o700000
TEMPO_MASK == \o077777
DATA_MARK == \o200
\* (uint32_t)EOF as rpb returns it and (uint32_t)-1, tempo when argc # 4.
\* The all-ones pattern is written -1: every other uint32_t of a run on the
\* tapes below stays under 2^19, and comparisons with it go through ULt.
EOF32 == -1
NO_TEMPO == -1
UNINIT == "uninit"

---------------------------------------------------------------------------
(* Frames and words *)

\* c & 0200
IsDataFrame(c) == (c \div DATA_MARK) % 2 = 1

RECURSIVE RpbLoop(_, _, _, _, _, _)
RpbLoop(fp, p, i, word, gap_frames, inner_frames) ==
    IF i >= 3
    THEN [word |-> word, gap_frames |-> gap_frames,
          inner_frames |-> inner_frames, pos |-> p, taken |-> i]
    ELSE IF p >= Len(fp)
    THEN [word |-> EOF32, gap_frames |-> gap_frames,
          inner_frames |-> inner_frames, pos |-> p, taken |-> i]
    ELSE LET c == fp[p + 1] IN
         IF IsDataFrame(c)
         THEN RpbLoop(fp, p + 1, i + 1, (word * 64) + (c % 64),
                      gap_frames, inner_frames)
         ELSE IF i # 0
         THEN RpbLoop(fp, p + 1, i, word, gap_frames, inner_frames + 1)
         ELSE RpbLoop(fp, p + 1, i, word, gap_frames + 1, inner_frames)

\* rpb(fp, &gap_frames, &inner_frames) with the file at position p
Rpb(fp, p) == RpbLoop(fp, p, 0, 0, 0, 0)

\* ppb with the high group masked 0370000 instead of 0770000
PpbNarrowMask(word) ==
    << DATA_MARK + ((word \div 4096) % 32),
       DATA_MARK + ((word \div 64) % 64),
       DATA_MARK + (word % 64) >>

\* ppb(fp, word): the three frames it puts
Ppb(word) ==
    << DATA_MARK + ((word \div 4096) % 64),
       DATA_MARK + ((word \div 64) % 64),
       DATA_MARK + (word % 64) >>

\* peek_gap without the fseek back to the saved position
PeekGapNoSeek(fp, p) ==
    LET r == Rpb(fp, p) IN
    [eof |-> r.word = EOF32, gap_frames |-> r.gap_frames, pos |-> r.pos,
     fetched |-> r.pos, taken |-> r.taken]

\* peek_gap(fp, &gap_frames): rpb, then fseek back (a seekable input)
PeekGap(fp, p) ==
    LET r == Rpb(fp, p) IN
    [eof |-> r.word = EOF32, gap_frames |-> r.gap_frames, pos |-> p,
     fetched |-> r.pos, taken |-> r.taken]

\* add_1s_complement without the end-around carry
AddNoCarry(a, b) == (a + b) % 262144

\* add_1s_complement(a, b) on uint32_t
Add1sComplement(a, b) ==
    LET sum == a + b IN
    ((sum % 262144) + (sum \div 262144)) % 262144

\* verify_checksum that never exits
VerifyAlways(expected, calculated) == TRUE

\* verify_checksum: TRUE when it returns, FALSE when it exits
VerifyChecksum(expected, calculated) == expected = calculated

RECURSIVE Fold(_)
Fold(ws) ==
    IF ws = << >> THEN 0
    ELSE Add1sComplement(Fold(SubSeq(ws, 1, Len(ws) - 1)), ws[Len(ws)])

---------------------------------------------------------------------------
(* Note model (decode) *)

\* parse_note with note_pitch taken as the pitch field itself, not pitch - 2
ParseNoteNoOffset(word) ==
    LET articulation == (((word \div 65536) % 4) * 4) + ((word \div 8192) % 4)
        triplet == (word \div 32768) % 2
        pitch == (word \div 128) % 64
        duration == word % 128
        divisor == duration * (IF triplet # 0 THEN 2 ELSE 3)
        note_pitch == IF pitch > 1 THEN pitch ELSE 0
    IN  [articulation |-> articulation,
         triplet |-> triplet,
         pitch |-> pitch,
         duration |-> duration,
         div0 |-> divisor = 0,
         note_duration |-> IF divisor = 0 THEN 0 ELSE 192 \div divisor,
         note_pitch |-> note_pitch,
         octave |-> IF pitch > 1 THEN (note_pitch \div 12) + 1 ELSE 0,
         semi_tone |-> IF pitch > 1 THEN note_pitch % 12 ELSE 0,
         rest |-> ~(pitch > 1)]

\* parse_note(word, &note); div0 marks the division by zero at line 141
ParseNote(word) ==
    LET articulation == (((word \div 65536) % 4) * 4) + ((word \div 8192) % 4)
        triplet == (word \div 32768) % 2
        pitch == (word \div 128) % 64
        duration == word % 128
        divisor == duration * (IF triplet # 0 THEN 2 ELSE 3)
        note_pitch == IF pitch > 1 THEN pitch - 2 ELSE 0
    IN  [articulation |-> articulation,
         triplet |-> triplet,
         pitch |-> pitch,
         duration |-> duration,
         div0 |-> divisor = 0,
         note_duration |-> IF divisor = 0 THEN 0 ELSE 192 \div divisor,
         note_pitch |-> note_pitch,
         octave |-> IF pitch > 1 THEN (note_pitch \div 12) + 1 ELSE 0,
         semi_tone |-> IF pitch > 1 THEN note_pitch % 12 ELSE 0,
         rest |-> ~(pitch > 1)]

\* decode_tempo_quarter(tempo); div0 marks the division by zero at line 162
DecodeTempoQuarter(word) ==
    LET raw == word % 32768 IN
    [div0 |-> raw = 0, bpm |-> IF raw = 0 THEN 0 ELSE 11436 \div raw]

\* articulation_name(articulation) returns (TRUE) or exits (FALSE)
ArticulationName(articulation) == articulation \in {0, 1, 2, 4, 8}

\* (word & 0700000) == 0700000
IsTempoWord(word) == (word \div 32768) % 8 = 7

\* a < b on uint32_t
ULt(a, b) == IF b = -1 THEN a # -1 ELSE IF a = -1 THEN FALSE ELSE a < b

\* a - 1 on uint32_t
UDec(a) == IF a = 0 THEN -1 ELSE a - 1

\* the data range taken one word too far: the checksum word is folded too
InDataRangeOffByOne(pwc, total) ==
    IF pwc > 1 THEN pwc < total + 3 ELSE FALSE

\* part_word_count > 1 && part_word_count < total_word_count + 2
InDataRange(pwc, total) ==
    IF pwc > 1 THEN pwc < total + 2 ELSE FALSE

\* part_word_count == total_word_count + 2
AtChecksum(pwc, total) == pwc = total + 2

\* the place of the sentinel in BARS never tested
SentinelAnywhere(pwc, total) == FALSE

\* part_word_count != total_word_count + 1, for a sentinel in BARS
SentinelMisplaced(pwc, total) == pwc # total + 1

\* the gap test left out
MissingGapNever(gap_frames) == FALSE

\* !gap_frames, the test before a BARS count is accepted
MissingGap(gap_frames) == gap_frames = 0

---------------------------------------------------------------------------
(* Input tapes *)

Blanks(n) == [i \in 1..n |-> 0]

TapeWord(w) ==
    << 128 + ((w \div 4096) % 64), 128 + ((w \div 64) % 64), 128 + (w % 64) >>

RECURSIVE TapeWords(_)
TapeWords(ws) ==
    IF ws = << >> THEN << >> ELSE TapeWord(Head(ws)) \o TapeWords(Tail(ws))

\* [count][data words][checksum + delta]
SectionFrames(data, delta) ==
    TapeWord(Len(data)) \o TapeWords(data)
        \o TapeWord((Fold(data) + delta) % 262144)

\* Words used on the model's tapes
NOTE_C1 == \o000404
NOTE_REST == \o000004
NOTE_DUR0 == \o000400
NOTE_BADART == \o060404
REST_BADART == \o060004
TEMPO_100 == \o700144
TEMPO_0 == \o700000

\* Bounds of the tape population
MaxGap == 1
MaxExtraVoices == 1

VcEmpty == [notes |-> << >>, bars |-> << >>]
VcPlain == [notes |-> << NOTE_C1, NOTE_REST, SENTINEL >>,
            bars |-> << 0, SENTINEL >>]
VcTempo == [notes |-> << TEMPO_100, NOTE_C1, SENTINEL >>,
            bars |-> << 1, SENTINEL >>]
VcTempoWalk == [notes |-> << NOTE_C1, TEMPO_100, SENTINEL >>,
                bars |-> << 0, SENTINEL >>]
VcLast == [notes |-> << NOTE_C1 >>, bars |-> << 0 >>]
VcDur0 == [notes |-> << NOTE_DUR0, NOTE_C1, SENTINEL >>,
           bars |-> << 1, 0, SENTINEL >>]
VcTempo0 == [notes |-> << TEMPO_0, SENTINEL >>, bars |-> << SENTINEL >>]
VcBadArt == [notes |-> << NOTE_BADART, SENTINEL >>, bars |-> << SENTINEL >>]
VcRestBadArt == [notes |-> << REST_BADART, SENTINEL >>,
                 bars |-> << 0, SENTINEL >>]
VcEarlySentinel == [notes |-> << NOTE_C1, SENTINEL >>,
                    bars |-> << SENTINEL, 0 >>]
VcNoNotes == [notes |-> << >>, bars |-> << 0 >>]
VcZeros == [notes |-> << 0, WORD_MASK, WORD_MASK >>, bars |-> << >>]

FirstVoices == { VcEmpty, VcPlain, VcTempo, VcTempoWalk, VcLast, VcDur0,
                 VcTempo0, VcBadArt, VcRestBadArt, VcEarlySentinel,
                 VcNoNotes, VcZeros }
SecondVoices == { VcEmpty, VcPlain, VcNoNotes }

\* One voice: NOTES, inner gap, BARS; nd and bd are added to the checksums
VoiceFrames(v, inner, nd, bd) ==
    SectionFrames(v.notes, nd) \o Blanks(inner) \o SectionFrames(v.bars, bd)

RECURSIVE VoicesFrames(_, _)
VoicesFrames(vs, inter) ==
    IF vs = << >> THEN << >>
    ELSE IF Len(vs) = 1 THEN VoiceFrames(vs[1], 1, 0, 0)
    ELSE VoiceFrames(vs[1], 1, 0, 0) \o Blanks(inter)
             \o VoicesFrames(Tail(vs), inter)

\* leader, k voices two blank frames apart, trailer
TapeOf(leader, vs, trailer) ==
    Blanks(leader) \o VoicesFrames(vs, 2) \o Blanks(trailer)

VoiceSeqs(k) ==
    IF k = 1 THEN { << v1 >> : v1 \in FirstVoices }
    ELSE { << v1, v2 >> \o [i \in 1..(k - 2) |-> VcEmpty] :
             v1 \in FirstVoices, v2 \in SecondVoices }

\* Tapes that follow the format: 1..4 voices, counts and checksums right
WellFormedCases ==
    { [frames |-> TapeOf(l, vs, t),
       meta |-> [kind |-> "wf", k |-> Len(vs), voices |-> vs,
                 leader |-> l, trailer |-> t]] :
        l \in 0..MaxGap, t \in 0..MaxGap,
        vs \in UNION { VoiceSeqs(k) : k \in 1..MAX_VOICE } }

EmptyVoices(k) == [i \in 1..k |-> VcEmpty]

\* What may follow the last voice and its trailer: whole or partial words
Tails == { TapeWord(0), << 128 >>, << 128, 128 >>, << 128, 0 >>,
           << 128, 0, 128, 128 >>, << 64 >>, << 192, 128, 128 >> }

ExtraCases ==
    { [frames |-> TapeOf(0, EmptyVoices(k), t) \o tl,
       meta |-> [kind |-> "extra", k |-> k, voices |-> EmptyVoices(k),
                 leader |-> 0, trailer |-> t]] :
        k \in 1..MAX_VOICE, t \in 0..MaxGap, tl \in Tails }

\* More voices than main's loop takes
OverlongCases ==
    { [frames |-> TapeOf(0, EmptyVoices(k), t),
       meta |-> [kind |-> "overlong", k |-> k, voices |-> EmptyVoices(k),
                 leader |-> 0, trailer |-> t]] :
        k \in (MAX_VOICE + 1)..(MAX_VOICE + MaxExtraVoices),
        t \in 0..MaxGap }

MutationBases ==
    { [frames |-> TapeOf(1, vs, 1),
       meta |-> [kind |-> "base", k |-> Len(vs), voices |-> vs,
                 leader |-> 1, trailer |-> 1]] :
        vs \in { << VcTempo >>, << VcEmpty, VcEmpty >> } }

\* A well-formed tape cut after p frames
TruncatedCases ==
    UNION { { [frames |-> SubSeq(b.frames, 1, p),
               meta |-> [b.meta EXCEPT !.kind = "trunc"]] :
                p \in 0..(Len(b.frames) - 1) } : b \in MutationBases }

\* A well-formed tape with one blank frame put in after p frames
BlankCases ==
    UNION { { [frames |-> SubSeq(b.frames, 1, p) \o << 0 >>
                            \o SubSeq(b.frames, p + 1, Len(b.frames)),
               meta |-> [b.meta EXCEPT !.kind = "blank"]] :
                p \in 0..Len(b.frames) } : b \in MutationBases }

\* One voice with a wrong checksum word or no gap before BARS
DamagedCases ==
    { [frames |-> VoiceFrames(v, d.inner, d.nd, d.bd) \o Blanks(1),
       meta |-> [kind |-> d.kind, k |-> 1, voices |-> << v >>,
                 leader |-> 0, trailer |-> 1]] :
        v \in { VcEmpty, VcPlain, VcTempo },
        d \in { [kind |-> "badsum_notes", inner |-> 1, nd |-> 1, bd |-> 0],
                [kind |-> "badsum_bars", inner |-> 1, nd |-> 0, bd |-> 1],
                [kind |-> "nogap", inner |-> 0, nd |-> 0, bd |-> 0] } }

TapeCases ==
    WellFormedCases \cup ExtraCases \cup OverlongCases \cup TruncatedCases
        \cup BlankCases \cup DamagedCases

---------------------------------------------------------------------------
(* Command lines *)

TempoArgs == { 200, 32773 }
GapArgs == { 0, 2 }

\* tweak.c:276  argc == 4 ? atoi(argv[3]) : -1
TempoFromArgs(n, tempoArg) == IF n = 4 THEN tempoArg ELSE NO_TEMPO

\* tweak.c:278-283
GapFromArgs(n, gapArg) == IF n = 5 THEN gapArg ELSE DEFAULT_GAP_LENGTH

ArgCases ==
    { [consumer |-> "decode", argc |-> 2, tempoArg |-> 0, gapArg |-> 0] }
    \cup { [consumer |-> "tweak", argc |-> 3, tempoArg |-> 0, gapArg |-> 0] }
    \cup { [consumer |-> "tweak", argc |-> 4, tempoArg |-> t, gapArg |-> 0] :
             t \in TempoArgs }
    \cup { [consumer |-> "tweak", argc |-> 5, tempoArg |-> t, gapArg |-> g] :
             t \in TempoArgs, g \in GapArgs }

---------------------------------------------------------------------------
(* Shared steps *)

Max(a, b) == IF a > b THEN a ELSE b

\* read_next_word(fp, &word, &word_count, &gap_frames, 0):
\* exit on inner blank frames, then EOF, else count the word
ReadNextWord(fp, p, wc) ==
    LET r == Rpb(fp, p) IN
    [exit |-> r.inner_frames # 0,
     eof |-> r.word = EOF32,
     word |-> r.word,
     gap_frames |-> r.gap_frames,
     pos |-> r.pos,
     fetched |-> r.pos,
     taken |-> r.taken,
     word_count |-> IF r.inner_frames # 0 \/ r.word = EOF32
                    THEN wc ELSE wc + 1]

\* notes[idx] = word; the model keeps the written prefix of the buffer
NotesStore(buf, idx, word) ==
    IF idx < Len(buf) THEN [buf EXCEPT ![idx + 1] = word]
    ELSE Append(buf, word)

\* write_gap stopping one frame early
WriteGapOneShort(length) == IF length > 1 THEN Blanks(length - 1) ELSE << >>

\* write_gap(fp_out, length)
WriteGap(length) == IF length > 0 THEN Blanks(length) ELSE << >>

\* read_bars lines 331-339: the walk from notes[idx]; limit is notes_count.
\* Reading at or past the written prefix reads memory never written.
RECURSIVE MeasureWalk(_, _, _, _)
MeasureWalk(buf, idx, limit, acc) ==
    IF idx >= Len(buf)
    THEN [acc EXCEPT !.idxs = Append(@, idx), !.unwritten = TRUE]
    ELSE IF buf[idx + 1] # SENTINEL /\ ULt(idx, limit)
    THEN MeasureWalk(buf, idx + 1, limit,
             [acc EXCEPT !.idxs = Append(@, idx),
                         !.parsed = Append(@, buf[idx + 1]),
                         !.div0 = @ \/ ParseNote(buf[idx + 1]).div0])
    ELSE [acc EXCEPT !.idxs = Append(@, idx)]

NoWalk == [idxs |-> << >>, parsed |-> << >>, div0 |-> FALSE,
           unwritten |-> FALSE]

\* History: where a read or a peek met end-of-stream
EofTags(r, place) ==
    IF r.eof
    THEN { place } \cup (IF r.taken > 0 THEN { "mid_word" } ELSE { })
    ELSE { }

\* Locals of a section function at its entry
EnterSection(kind, mark) ==
    /\ part_word_count' = 0
    /\ total_word_count' = UNINIT
    /\ checksum' = 0
    /\ new_checksum' = 0
    /\ section' = << voice, kind >>
    /\ secGap' = 0
    /\ secWords' = << >>
    /\ folded' = << >>
    /\ compared' = << >>
    /\ secOut' = << >>
    /\ walked' = << >>
    /\ parsed' = << >>
    /\ events' = Append(events, << kind, voice >>)
    /\ outMark' = mark

sectionVars == << part_word_count, total_word_count, checksum, new_checksum,
                  section, secGap, secWords, folded, compared, secOut,
                  walked, parsed, events, outMark >>
inputVars == << consumer, argc, argv, tempo, gap_length, tape, meta, fin,
                fout >>

---------------------------------------------------------------------------
(* decodehcint.c *)

\* main lines 375-381: the loop test and the entry of read_notes
DecodeVoiceLoop ==
    /\ consumer = "decode" /\ status = "running" /\ pc = "loop"
    /\ IF voice <= MAX_VOICE
       THEN /\ pc' = "notes"
            /\ EnterSection("notes", Len(out))
       ELSE /\ pc' = "end"
            /\ UNCHANGED sectionVars
    /\ UNCHANGED << inputVars, pos, seen, out, status, voice, word_count,
                    notes, notes_count, eofMet >>

\* read_notes lines 211-267: one turn of its loop
DecodeReadNotes ==
    /\ consumer = "decode" /\ status = "running" /\ pc = "notes"
    /\ LET r == ReadNextWord(tape, pos, word_count)
           word == r.word
           got == ~r.exit /\ ~r.eof
           pwc == part_word_count + 1
           inRange == got /\ InDataRange(pwc, total_word_count)
           atCount == got /\ pwc = 1
           atSum == got /\ ~atCount /\ AtChecksum(pwc, total_word_count)
           atData == got /\ ~atCount /\ ~atSum
           sum == IF inRange THEN Add1sComplement(checksum, word)
                  ELSE checksum
           sumOk == atSum /\ VerifyChecksum(word, sum)
           isSentinel == word = SENTINEL
           isTempo == ~isSentinel /\ IsTempoWord(word)
           isNote == atData /\ ~isSentinel /\ ~isTempo
           note == ParseNote(word)
           div0 == \/ atData /\ isTempo /\ DecodeTempoQuarter(word).div0
                   \/ isNote /\ note.div0
           overflow == inRange /\ pwc - 2 >= NOTES_BUFFER_SIZE
           defined ==
               IF r.exit THEN "err_inner"
               ELSE IF r.eof THEN "err_eof_notes"
               ELSE IF atSum /\ ~sumOk THEN "err_checksum"
               ELSE IF isNote /\ note.pitch > 1
                       /\ ~ArticulationName(note.articulation)
               THEN "err_artic"
               ELSE "running"
           outcomes == IF div0 \/ overflow THEN { "crash", defined }
                       ELSE { defined }
       IN  /\ \E oc \in outcomes :
                /\ status' = oc
                /\ pc' = IF oc # "running" THEN "done"
                         ELSE IF atSum THEN "enter_bars" ELSE "notes"
           /\ pos' = r.pos
           /\ seen' = Max(seen, r.fetched)
           /\ word_count' = r.word_count
           /\ part_word_count' = IF got THEN pwc ELSE part_word_count
           /\ total_word_count' = IF atCount THEN word ELSE total_word_count
           /\ notes_count' = IF atCount THEN UDec(word)
                             ELSE notes_count
           /\ checksum' = sum
           /\ notes' = IF inRange /\ ~overflow
                       THEN NotesStore(notes, pwc - 2, word) ELSE notes
           /\ secWords' = IF got THEN Append(secWords, word) ELSE secWords
           /\ folded' = IF inRange THEN Append(folded, word) ELSE folded
           /\ compared' = IF atSum THEN Append(compared, << word, sum >>)
                          ELSE compared
           /\ parsed' = IF isNote THEN Append(parsed, word) ELSE parsed
           /\ eofMet' = eofMet \cup EofTags(r, "notes")
           /\ events' = IF sumOk THEN Append(events, << "notes_done", voice >>)
                        ELSE events
    /\ UNCHANGED << inputVars, out, voice, new_checksum, section, secGap,
                    secOut, walked, outMark >>

\* main line 386: the entry of read_bars
DecodeEnterBars ==
    /\ consumer = "decode" /\ status = "running" /\ pc = "enter_bars"
    /\ pc' = "bars"
    /\ EnterSection("bars", Len(out))
    /\ UNCHANGED << inputVars, pos, seen, out, status, voice, word_count,
                    notes, notes_count, eofMet >>

\* read_bars lines 283-343: one turn of its loop, and main lines 386-389
DecodeReadBars ==
    /\ consumer = "decode" /\ status = "running" /\ pc = "bars"
    /\ LET r == ReadNextWord(tape, pos, word_count)
           word == r.word
           got == ~r.exit /\ ~r.eof
           pwc == part_word_count + 1
           inRange == got /\ InDataRange(pwc, total_word_count)
           atCount == got /\ pwc = 1
           atSum == got /\ ~atCount /\ AtChecksum(pwc, total_word_count)
           atData == got /\ ~atCount /\ ~atSum
           sum == IF inRange THEN Add1sComplement(checksum, word)
                  ELSE checksum
           sumOk == atSum /\ VerifyChecksum(word, sum)
           pk == PeekGap(tape, r.pos)
           isSentinel == word = SENTINEL
           isIndex == atData /\ ~isSentinel /\ ULt(word, notes_count)
           walk == IF isIndex THEN MeasureWalk(notes, word, notes_count, NoWalk)
                   ELSE NoWalk
           defined ==
               IF r.exit THEN "err_inner"
               ELSE IF r.eof THEN "running"
               ELSE IF atCount /\ MissingGap(r.gap_frames) THEN "err_gap"
               ELSE IF atSum /\ ~sumOk THEN "err_checksum"
               ELSE IF atData /\ isSentinel
                       /\ SentinelMisplaced(pwc, total_word_count)
               THEN "err_sentinel"
               ELSE IF atData /\ ~isSentinel /\ ~ULt(word, notes_count)
               THEN "err_index"
               ELSE "running"
           outcomes == IF walk.div0 \/ walk.unwritten THEN { "crash", defined }
                       ELSE { defined }
       IN  /\ \E oc \in outcomes :
                /\ status' = oc
                /\ pc' = IF oc # "running" THEN "done"
                         ELSE IF r.eof \/ (sumOk /\ pk.eof) THEN "end"
                         ELSE IF sumOk THEN "loop"
                         ELSE "bars"
                /\ voice' = IF oc = "running" /\ sumOk /\ ~pk.eof
                            THEN voice + 1 ELSE voice
           /\ pos' = r.pos
           /\ seen' = IF sumOk THEN Max(Max(seen, r.fetched), pk.fetched)
                      ELSE Max(seen, r.fetched)
           /\ word_count' = r.word_count
           /\ part_word_count' = IF got THEN pwc ELSE part_word_count
           /\ total_word_count' =
                 IF atCount /\ ~MissingGap(r.gap_frames) THEN word
                 ELSE total_word_count
           /\ checksum' = sum
           /\ secGap' = IF atCount THEN r.gap_frames ELSE secGap
           /\ secWords' = IF got THEN Append(secWords, word) ELSE secWords
           /\ folded' = IF inRange THEN Append(folded, word) ELSE folded
           /\ compared' = IF atSum THEN Append(compared, << word, sum >>)
                          ELSE compared
           /\ walked' = IF isIndex THEN walk.idxs ELSE walked
           /\ parsed' = parsed \o walk.parsed
           /\ eofMet' = IF sumOk
                        THEN eofMet \cup EofTags(pk, "bars_peek")
                        ELSE eofMet \cup EofTags(r, "bars")
           /\ events' = IF sumOk THEN Append(events, << "bars_done", voice >>)
                        ELSE events
    /\ UNCHANGED << inputVars, out, new_checksum, notes, notes_count,
                    section, secOut, outMark >>

\* main lines 392-399
DecodeFinish ==
    /\ consumer = "decode" /\ status = "running" /\ pc = "end"
    /\ status' = "ok"
    /\ pc' = "done"
    /\ UNCHANGED << inputVars, sectionVars, pos, seen, out, voice,
                    word_count, notes, notes_count, eofMet >>

---------------------------------------------------------------------------
(* tweak.c *)

\* the substitution without the test of tempo against -1
SubstituteAlways(word, t) == IsTempoWord(word)

\* (word & 0700000) == 0700000 && tempo != -1
SubstituteTempo(word, t) == IsTempoWord(word) /\ t # NO_TEMPO

\* 0700000 | (tempo & 0077777)
NewTempoWord(t) == TEMPO_BITS + (t % (TEMPO_MASK + 1))

\* copy_notes passing the source checksum through
NotesChecksumCopied(word, sum) == word

\* copy_notes line 169: the word put in place of the source checksum
NotesChecksumOut(word, sum) == sum

\* copy_bars line 223: the word put in place of the source checksum
BarsChecksumOut(word, sum) == word

\* main lines 293-300: the leader
TweakLeader ==
    /\ consumer = "tweak" /\ status = "running" /\ pc = "start"
    /\ LET pk == PeekGap(tape, pos) IN
       /\ seen' = Max(seen, pk.fetched)
       /\ IF pk.eof
          THEN /\ status' = "err_empty"
               /\ pc' = "done"
               /\ out' = out
               /\ eofMet' = eofMet \cup EofTags(pk, "leader_peek")
          ELSE /\ status' = status
               /\ pc' = "loop"
               /\ out' = out \o WriteGap(pk.gap_frames)
               /\ eofMet' = eofMet
    /\ UNCHANGED << inputVars, sectionVars, pos, voice, word_count, notes,
                    notes_count >>

\* main lines 302-308: the loop test and the entry of copy_notes
TweakVoiceLoop ==
    /\ consumer = "tweak" /\ status = "running" /\ pc = "loop"
    /\ IF voice <= MAX_VOICE
       THEN /\ pc' = "notes"
            /\ word_count' = 0
            /\ EnterSection("notes", Len(out))
       ELSE /\ pc' = "trailer"
            /\ UNCHANGED << sectionVars, word_count >>
    /\ UNCHANGED << inputVars, pos, seen, out, status, voice, notes,
                    notes_count, eofMet >>

\* copy_notes lines 148-185: one turn of its loop
TweakCopyNotes ==
    /\ consumer = "tweak" /\ status = "running" /\ pc = "notes"
    /\ LET r == ReadNextWord(tape, pos, word_count)
           word == r.word
           got == ~r.exit /\ ~r.eof
           pwc == part_word_count + 1
           inRange == got /\ InDataRange(pwc, total_word_count)
           atCount == got /\ pwc = 1
           atSum == got /\ ~atCount /\ AtChecksum(pwc, total_word_count)
           atData == got /\ ~atCount /\ ~atSum
           sum == IF inRange THEN Add1sComplement(checksum, word)
                  ELSE checksum
           sumOk == atSum /\ VerifyChecksum(word, sum)
           is_tempo == atData /\ SubstituteTempo(word, tempo)
           new_word == NewTempoWord(tempo)
           put == IF atCount THEN << word >>
                  ELSE IF atSum
                  THEN IF sumOk THEN << NotesChecksumOut(word, new_checksum) >>
                       ELSE << >>
                  ELSE IF is_tempo THEN << new_word >>
                  ELSE IF atData THEN << word >>
                  ELSE << >>
       IN  /\ status' = IF r.exit THEN "err_inner"
                        ELSE IF r.eof THEN "err_eof_notes"
                        ELSE IF atSum /\ ~sumOk THEN "err_checksum"
                        ELSE "running"
           /\ pc' = IF r.exit \/ r.eof \/ (atSum /\ ~sumOk) THEN "done"
                    ELSE IF atSum THEN "inner" ELSE "notes"
           /\ pos' = r.pos
           /\ seen' = Max(seen, r.fetched)
           /\ word_count' = r.word_count
           /\ part_word_count' = IF got THEN pwc ELSE part_word_count
           /\ total_word_count' = IF atCount THEN word ELSE total_word_count
           /\ checksum' = sum
           /\ new_checksum' =
                 IF is_tempo THEN Add1sComplement(new_checksum, new_word)
                 ELSE IF atData /\ inRange
                 THEN Add1sComplement(new_checksum, word)
                 ELSE new_checksum
           /\ out' = IF put = << >> THEN out ELSE out \o Ppb(put[1])
           /\ secOut' = secOut \o put
           /\ secWords' = IF got THEN Append(secWords, word) ELSE secWords
           /\ folded' = IF inRange THEN Append(folded, word) ELSE folded
           /\ compared' = IF atSum THEN Append(compared, << word, sum >>)
                          ELSE compared
           /\ eofMet' = eofMet \cup EofTags(r, "notes")
           /\ events' = IF sumOk THEN Append(events, << "notes_done", voice >>)
                        ELSE events
    /\ UNCHANGED << inputVars, voice, notes, notes_count, section, secGap,
                    walked, parsed, outMark >>

\* main lines 313-322: the inner gap and the entry of copy_bars
TweakInnerGap ==
    /\ consumer = "tweak" /\ status = "running" /\ pc = "inner"
    /\ LET pk == PeekGap(tape, pos) IN
       /\ seen' = Max(seen, pk.fetched)
       /\ IF pk.eof
          THEN /\ status' = "err_missing_bars"
               /\ pc' = "done"
               /\ out' = out
               /\ eofMet' = eofMet \cup EofTags(pk, "inner_peek")
               /\ UNCHANGED << sectionVars, word_count >>
          ELSE /\ status' = status
               /\ pc' = "bars"
               /\ out' = out \o WriteGap(pk.gap_frames)
               /\ eofMet' = eofMet
               /\ word_count' = 0
               /\ EnterSection("bars",
                               Len(out) + Len(WriteGap(pk.gap_frames)))
    /\ UNCHANGED << inputVars, pos, voice, notes, notes_count >>

\* copy_bars lines 201-235: one turn of its loop
TweakCopyBars ==
    /\ consumer = "tweak" /\ status = "running" /\ pc = "bars"
    /\ LET r == ReadNextWord(tape, pos, word_count)
           word == r.word
           got == ~r.exit /\ ~r.eof
           pwc == part_word_count + 1
           inRange == got /\ InDataRange(pwc, total_word_count)
           atCount == got /\ pwc = 1
           atSum == got /\ ~atCount /\ AtChecksum(pwc, total_word_count)
           atData == got /\ ~atCount /\ ~atSum
           sum == IF inRange THEN Add1sComplement(checksum, word)
                  ELSE checksum
           sumOk == atSum /\ VerifyChecksum(word, sum)
           noGap == atCount /\ MissingGap(r.gap_frames)
           pk == PeekGap(tape, r.pos)
           put == IF atCount THEN IF noGap THEN << >> ELSE << word >>
                  ELSE IF atSum
                  THEN IF sumOk THEN << BarsChecksumOut(word, sum) >>
                       ELSE << >>
                  ELSE IF atData THEN << word >>
                  ELSE << >>
       IN  /\ status' = IF r.exit THEN "err_inner"
                        ELSE IF r.eof THEN "running"
                        ELSE IF noGap THEN "err_gap"
                        ELSE IF atSum /\ ~sumOk THEN "err_checksum"
                        ELSE "running"
           /\ pc' = IF r.exit \/ (got /\ noGap) \/ (atSum /\ ~sumOk)
                    THEN "done"
                    ELSE IF r.eof \/ (sumOk /\ pk.eof) THEN "trailer"
                    ELSE IF sumOk THEN "gap"
                    ELSE "bars"
           /\ pos' = r.pos
           /\ seen' = IF sumOk THEN Max(Max(seen, r.fetched), pk.fetched)
                      ELSE Max(seen, r.fetched)
           /\ word_count' = r.word_count
           /\ part_word_count' = IF got THEN pwc ELSE part_word_count
           /\ total_word_count' = IF atCount /\ ~noGap THEN word
                                  ELSE total_word_count
           /\ checksum' = sum
           /\ out' = IF put = << >> THEN out ELSE out \o Ppb(put[1])
           /\ secOut' = secOut \o put
           /\ secGap' = IF atCount THEN r.gap_frames ELSE secGap
           /\ secWords' = IF got THEN Append(secWords, word) ELSE secWords
           /\ folded' = IF inRange THEN Append(folded, word) ELSE folded
           /\ compared' = IF atSum THEN Append(compared, << word, sum >>)
                          ELSE compared
           /\ eofMet' = IF sumOk
                        THEN eofMet \cup EofTags(pk, "bars_peek")
                        ELSE eofMet \cup EofTags(r, "bars")
           /\ events' = IF sumOk THEN Append(events, << "bars_done", voice >>)
                        ELSE events
    /\ UNCHANGED << inputVars, voice, new_checksum, notes, notes_count,
                    section, walked, parsed, outMark >>

\* main lines 326-328: the gap between two voices
TweakVoiceGap ==
    /\ consumer = "tweak" /\ status = "running" /\ pc = "gap"
    /\ out' = out \o WriteGap(gap_length)
    /\ voice' = voice + 1
    /\ pc' = "loop"
    /\ UNCHANGED << inputVars, sectionVars, pos, seen, status, word_count,
                    notes, notes_count, eofMet >>

\* main lines 331-344: the trailer
TweakTrailer ==
    /\ consumer = "tweak" /\ status = "running" /\ pc = "trailer"
    /\ LET pk == PeekGap(tape, pos) IN
       /\ seen' = Max(seen, pk.fetched)
       /\ pc' = "done"
       /\ IF pk.eof
          THEN /\ status' = "ok"
               /\ out' = out \o WriteGap(pk.gap_frames)
               /\ eofMet' = eofMet \cup EofTags(pk, "trailer_peek")
          ELSE /\ status' = "err_trailing"
               /\ out' = out
               /\ eofMet' = eofMet
    /\ UNCHANGED << inputVars, sectionVars, pos, voice, word_count, notes,
                    notes_count >>

---------------------------------------------------------------------------
(* The runs *)

Init ==
    /\ \E t \in TapeCases :
          /\ tape = t.frames
          /\ meta = t.meta
    /\ \E a \in ArgCases :
          /\ consumer = a.consumer
          /\ argc = a.argc
          /\ argv = [tempo |-> a.tempoArg, gap |-> a.gapArg]
          /\ tempo = TempoFromArgs(a.argc, a.tempoArg)
          /\ gap_length = GapFromArgs(a.argc, a.gapArg)
          /\ pc = IF a.consumer = "decode" THEN "loop" ELSE "start"
    /\ pos = 0
    /\ seen = 0
    /\ out = << >>
    /\ status = "running"
    /\ voice = 1
    /\ word_count = 0
    /\ part_word_count = 0
    /\ total_word_count = UNINIT
    /\ checksum = 0
    /\ new_checksum = 0
    /\ notes = << >>
    /\ notes_count = 0
    /\ section = << 0, "none" >>
    /\ secGap = 0
    /\ secWords = << >>
    /\ folded = << >>
    /\ compared = << >>
    /\ secOut = << >>
    /\ eofMet = { }
    /\ walked = << >>
    /\ parsed = << >>
    /\ events = << >>
    /\ outMark = 0
    /\ fin = "none"
    /\ fout = "none"

Next ==
    \/ DecodeVoiceLoop
    \/ DecodeReadNotes
    \/ DecodeEnterBars
    \/ DecodeReadBars
    \/ DecodeFinish
    \/ TweakLeader
    \/ TweakVoiceLoop
    \/ TweakCopyNotes
    \/ TweakInnerGap
    \/ TweakCopyBars
    \/ TweakVoiceGap
    \/ TweakTrailer

Spec == Init /\ [][Next]_vars

TypeOK ==
    /\ pos \in 0..Len(tape)
    /\ checksum \in 0..WORD_MASK
    /\ new_checksum \in 0..WORD_MASK
    /\ voice \in 1..(MAX_VOICE + 1)

---------------------------------------------------------------------------
(* The frame codec and the checksum on their own *)

\* The run's variables while only a function is exercised
NoRun ==
    /\ consumer = "none"
    /\ argc = 0
    /\ argv = [tempo |-> 0, gap |-> 0]
    /\ tempo = NO_TEMPO
    /\ gap_length = DEFAULT_GAP_LENGTH
    /\ tape = << >>
    /\ meta = [kind |-> "none"]
    /\ pos = 0
    /\ seen = 0
    /\ out = << >>
    /\ status = "running"
    /\ voice = 1
    /\ word_count = 0
    /\ part_word_count = 0
    /\ total_word_count = UNINIT
    /\ checksum = 0
    /\ new_checksum = 0
    /\ notes = << >>
    /\ notes_count = 0
    /\ section = << 0, "none" >>
    /\ secGap = 0
    /\ secWords = << >>
    /\ folded = << >>
    /\ compared = << >>
    /\ secOut = << >>
    /\ eofMet = { }
    /\ walked = << >>
    /\ parsed = << >>
    /\ events = << >>
    /\ outMark = 0

runVars == << consumer, argc, argv, tempo, gap_length, tape, meta, pos,
              seen, status, voice, word_count, part_word_count,
              total_word_count, checksum, new_checksum, notes, notes_count,
              section, secGap, secWords, folded, compared, secOut, eofMet,
              walked, parsed, events, outMark >>

\* Every 18-bit word
CodecWords == 0..WORD_MASK

CodecInit ==
    /\ NoRun
    /\ pc = "codec"
    /\ fin \in CodecWords
    /\ fout = "none"

\* ppb(fp_out, word) on an empty file
CodecPut ==
    /\ pc = "codec"
    /\ out' = out \o Ppb(fin)
    /\ pc' = "codec_put"
    /\ UNCHANGED << runVars, fin, fout >>

\* rpb on the file ppb wrote, from its start
CodecGet ==
    /\ pc = "codec_put"
    /\ fout' = Rpb(out, 0)
    /\ pc' = "codec_got"
    /\ UNCHANGED << runVars, out, fin >>

CodecNext == CodecPut \/ CodecGet

CodecSpec == CodecInit /\ [][CodecNext]_vars

\* Words and lengths the checksum is exercised on
CkWords == { 0, 1, \o400000, \o777776, \o777777 }
MaxCkLen == 3

CkSeqs == UNION { [1..n -> CkWords] : n \in 1..MaxCkLen }

\* ws with its i-th word changed to y
Changed(ws, i, y) == [ws EXCEPT ![i] = y]

CkInit ==
    /\ NoRun
    /\ pc = "ck"
    /\ \E ws \in CkSeqs : \E i \in 1..Len(ws) : \E y \in CkWords \ { ws[i] } :
          fin = [ws |-> ws, i |-> i, y |-> y]
    /\ fout = [j |-> 0, a |-> 0, b |-> 0, same |-> FALSE, changed |-> FALSE]

\* One fold, as in the section loops: of the sequence and of the changed one
CkFold ==
    /\ pc = "ck"
    /\ fout.j < Len(fin.ws)
    /\ fout' = [fout EXCEPT
                  !.j = @ + 1,
                  !.a = Add1sComplement(@, fin.ws[fout.j + 1]),
                  !.b = Add1sComplement(@, Changed(fin.ws, fin.i, fin.y)[fout.j + 1])]
    /\ UNCHANGED << runVars, out, pc, fin >>

\* verify_checksum of each fold against the checksum of the sequence
CkVerify ==
    /\ pc = "ck"
    /\ fout.j = Len(fin.ws)
    /\ fout' = [fout EXCEPT !.same = VerifyChecksum(fout.a, fout.a),
                            !.changed = VerifyChecksum(fout.a, fout.b)]
    /\ pc' = "ck_done"
    /\ UNCHANGED << runVars, out, fin >>

CkNext == CkFold \/ CkVerify

ChecksumSpec == CkInit /\ [][CkNext]_vars

---------------------------------------------------------------------------
(* Properties *)

Min(a, b) == IF a < b THEN a ELSE b

\* The number of data frames among the first i frames of t
DataFrames(t, i) == Cardinality({ j \in 1..i : IsDataFrame(t[j]) })

\* Frame i of t is blank and lies after the first and before the third data
\* frame of a word
InnerBlankAt(t, i) ==
    /\ ~IsDataFrame(t[i])
    /\ DataFrames(t, i - 1) % 3 # 0

\* The count of the section in progress
SecCount == secWords[1]

\* C1: every 18-bit word written by ppb and read back by rpb comes back the
\* same, with no gap frame and no inner blank frame counted.
C1_RoundTrip ==
    pc = "codec_got" =>
        /\ fout.word = fin
        /\ fout.gap_frames = 0
        /\ fout.inner_frames = 0
        /\ fout.pos = Len(out)

C1_Witness ==
    /\ pc = "codec_got"
    /\ fin = \o654321
    /\ fout.word = \o654321

\* C2 as stated: once the run has ended, it ended with the inner-dropout
\* error exactly when some frame it fetched (by a read or by a peek) is a
\* blank frame inside a word.
C2_InnerBlankAlwaysFatal ==
    status # "running" =>
        ((\E i \in 1..seen : InnerBlankAt(tape, i)) <=> status = "err_inner")

\* The exchange of the two zeros that end-around-carry addition cannot see
ZeroSwap ==
    /\ { fin.ws[fin.i], fin.y } = { 0, WORD_MASK }
    /\ \E j \in 1..Len(fin.ws) : j # fin.i /\ fin.ws[j] # 0

\* C3 as stated: the fold of a sequence verifies against itself, and the
\* fold of the sequence with one word changed never verifies against it.
C3_AnyChangeDetected ==
    pc = "ck_done" => fout.same /\ ~fout.changed

\* C3 amended: the fold of a sequence verifies against itself; the fold with
\* one word changed verifies against it exactly when the change exchanges 0
\* and 0777777 and another word of the sequence is not 0.
C3_ChangeDetectedButZeroSwap ==
    pc = "ck_done" => fout.same /\ (fout.changed <=> ZeroSwap)

C3_Witness ==
    /\ pc = "ck_done"
    /\ Len(fin.ws) > 1
    /\ fin.ws[fin.i] = \o777776
    /\ fin.y = \o777777
    /\ ~fout.changed

\* C4: in a section with count n the words folded are the next n words in
\* the order read (never the count, never the checksum), the accumulator is
\* their fold, and the only comparison is of word n+2 with that fold, after
\* which no word of the section is read.
C4_SectionFraming ==
    secWords # << >> =>
        /\ Len(secWords) <= SecCount + 2
        /\ folded = SubSeq(secWords, 2, Min(Len(secWords), SecCount + 1))
        /\ checksum = Fold(folded)
        /\ compared =
             IF Len(secWords) = SecCount + 2
             THEN << << secWords[SecCount + 2],
                        Fold(SubSeq(secWords, 2, SecCount + 1)) >> >>
             ELSE << >>
        /\ Len(secWords) = SecCount + 2 => pc \notin { "notes", "bars" }

C4_Witness ==
    /\ status = "running"
    /\ section[2] = "bars"
    /\ secWords # << >>
    /\ Len(secWords) = SecCount + 2
    /\ Len(folded) = 2
    /\ compared # << >>

\* C5: a checksum word that differs from the accumulated checksum ends the
\* run at once in the checksum error: no step follows, the input stays
\* after the checksum word, and tweak has written the count and the data
\* words of the section and nothing more.
C5_MismatchAborts ==
    (compared # << >> /\ compared[Len(compared)][1] # compared[Len(compared)][2])
    =>  /\ status = "err_checksum"
        /\ pc = "done"
        /\ ~ENABLED Next
        /\ seen = pos
        /\ DataFrames(tape, pos) % 3 = 0
        /\ consumer = "tweak" =>
              /\ Len(secOut) = Len(secWords) - 1
              /\ out = SubSeq(out, 1, outMark) \o TapeWords(secOut)

C5_Witness ==
    /\ status = "err_checksum"
    /\ consumer = "tweak"
    /\ section[2] = "notes"
    /\ Len(secOut) = 4

\* C6 as stated: a run ends without error only when end-of-stream was met
\* by the peek after a verified BARS section, and nowhere else before (in
\* tweak the trailer peek then meets it again).
C6_EofOnlyAfterBars ==
    status = "ok" =>
        /\ "bars_peek" \in eofMet
        /\ eofMet \subseteq { "bars_peek", "trailer_peek" }

\* C7 as stated: a run that succeeds leaves no data frame unread on the tape.
C7_NoDataAfterTrailer ==
    status = "ok" =>
        \A i \in (pos + 1)..Len(tape) : ~IsDataFrame(tape[i])

\* C8: a BARS count word read with no blank frame before it ends the run in
\* the missing-gap error, with no data word of the section read or folded
\* and no word of the section written.
C8_MissingGapAborts ==
    (section[2] = "bars" /\ secWords # << >> /\ secGap = 0) =>
        /\ status = "err_gap"
        /\ Len(secWords) = 1
        /\ folded = << >>
        /\ secOut = << >>
        /\ Len(out) = outMark

C8_Witness ==
    /\ status = "err_gap"
    /\ consumer = "tweak"
    /\ out # << >>

\* A tape of the format whose words both consumers' own rules allow: notes
\* with a known articulation and a duration, tempo words with a payload,
\* bar words that index a note, the sentinel only as the last bar word.
ValidNoteWord(w) ==
    \/ w = SENTINEL
    \/ IsTempoWord(w) /\ w % 32768 # 0
    \/ /\ ~IsTempoWord(w)
       /\ ParseNote(w).articulation \in { 0, 1, 2, 4, 8 }
       /\ ParseNote(w).duration # 0

ValidVoice(v) ==
    /\ \A i \in 1..Len(v.notes) : ValidNoteWord(v.notes[i])
    /\ \A i \in 1..Len(v.bars) :
          IF v.bars[i] = SENTINEL THEN i = Len(v.bars)
          ELSE v.bars[i] < Len(v.notes)

WellFormedTape ==
    /\ meta.kind = "wf"
    /\ \A i \in 1..Len(meta.voices) : ValidVoice(meta.voices[i])

RECURSIVE VoiceEvents(_)
VoiceEvents(k) ==
    IF k = 0 THEN << >>
    ELSE VoiceEvents(k - 1) \o << << "notes", k >>, << "notes_done", k >>,
                                  << "bars", k >>, << "bars_done", k >> >>

\* C9 as stated: on a well-formed tape of k voices the run ends without
\* error after exactly k voices, each with NOTES verified before BARS is
\* entered, stopped by the peek after the k-th BARS; and never more than
\* four voices are started.
C9_VoiceLoop ==
    /\ Cardinality({ i \in 1..Len(events) : events[i][1] = "notes" })
          <= MAX_VOICE
    /\ (WellFormedTape /\ status # "running") =>
          /\ status = "ok"
          /\ events = VoiceEvents(meta.k)
          /\ "bars_peek" \in eofMet

\* C10: when copy_notes has finished a section, it wrote the count, n data
\* words and then the fold of exactly those n written words, and the source
\* checksum was compared with, and equal to, the fold of the n source words.
C10_NotesChecksumRecomputed ==
    (consumer = "tweak" /\ section[2] = "notes" /\ pc = "inner") =>
        /\ Len(secWords) = SecCount + 2
        /\ Len(secOut) = SecCount + 2
        /\ secOut[1] = SecCount
        /\ secOut[SecCount + 2] = Fold(SubSeq(secOut, 2, SecCount + 1))
        /\ out = SubSeq(out, 1, outMark) \o TapeWords(secOut)
        /\ compared = << << secWords[SecCount + 2],
                            Fold(SubSeq(secWords, 2, SecCount + 1)) >> >>
        /\ compared[1][1] = compared[1][2]

C10_Witness ==
    /\ consumer = "tweak"
    /\ section[2] = "notes"
    /\ pc = "inner"
    /\ tempo # NO_TEMPO
    /\ secOut[SecCount + 2] # secWords[SecCount + 2]

\* The gap main writes between two voices for the arguments given
GivenGap == IF argc = 5 THEN argv.gap ELSE DEFAULT_GAP_LENGTH

\* C11 as stated: when tweak is given a tempo (alone, or with a gap length),
\* every tempo word among the data words it writes in a NOTES section
\* carries the low 15 bits of the given tempo, and the gap written after a
\* voice that another voice follows has the given length, 18 when no
\* length is given.
C11_TempoAndGapApplied ==
    (consumer = "tweak" /\ argc >= 4) =>
        /\ (section[2] = "notes" /\ secWords # << >>) =>
              \A i \in 2..Min(Len(secOut), SecCount + 1) :
                  IsTempoWord(secOut[i]) =>
                      secOut[i] % (TEMPO_MASK + 1)
                          = argv.tempo % (TEMPO_MASK + 1)
        /\ (pc = "loop" /\ voice > 1) =>
              out = SubSeq(out, 1, outMark) \o TapeWords(secOut)
                        \o Blanks(GivenGap)

\* C12 as stated: in decode no word handed to parse_note, by read_notes or
\* by the measure walk of read_bars, has its top three bits all set.
C12_TempoNeverParsedAsNote ==
    consumer = "decode" =>
        \A i \in 1..Len(parsed) : ~IsTempoWord(parsed[i])

\* C13 as stated: in decode a note word read in a NOTES section whose
\* articulation composite is not 0, 1, 2, 4 or 8 ends the run there with the
\* invalid-articulation error, rests (pitch 0 and 1) included.
C13_BadArticulationAlwaysFatal ==
    (consumer = "decode" /\ section[2] = "notes") =>
        \A i \in 1..Len(parsed) :
            ~ArticulationName(ParseNote(parsed[i]).articulation) =>
                /\ status = "err_artic"
                /\ i = Len(parsed)

---------------------------------------------------------------------------
(* The note buffer at its capacity (decode) *)

\* How far past NOTES_BUFFER_SIZE the NOTES counts of the long tapes go
MaxOver == 1

\* The fold of n copies of the word w
RepeatFold(w, n) ==
    LET r == (n * w) % WORD_MASK IN
    IF r = 0 /\ w # 0 /\ n > 0 THEN WORD_MASK ELSE r

\* One voice of n equal notes and no bars, one blank frame around sections
LongTape(n) ==
    Blanks(1) \o TapeWord(n)
        \o [i \in 1..(3 * n) |-> TapeWord(NOTE_C1)[((i - 1) % 3) + 1]]
        \o TapeWord(RepeatFold(NOTE_C1, n))
        \o Blanks(1) \o SectionFrames(<< >>, 0) \o Blanks(1)

LongCases ==
    { [frames |-> LongTape(n),
       meta |-> [kind |-> "long", k |-> 1, count |-> n]] :
        n \in NOTES_BUFFER_SIZE..(NOTES_BUFFER_SIZE + MaxOver) }

BufferInit ==
    /\ \E t \in LongCases :
          /\ tape = t.frames
          /\ meta = t.meta
    /\ consumer = "decode"
    /\ argc = 2
    /\ argv = [tempo |-> 0, gap |-> 0]
    /\ tempo = NO_TEMPO
    /\ gap_length = DEFAULT_GAP_LENGTH
    /\ pc = "loop"
    /\ pos = 0
    /\ seen = 0
    /\ out = << >>
    /\ status = "running"
    /\ voice = 1
    /\ word_count = 0
    /\ part_word_count = 0
    /\ total_word_count = UNINIT
    /\ checksum = 0
    /\ new_checksum = 0
    /\ notes = << >>
    /\ notes_count = 0
    /\ section = << 0, "none" >>
    /\ secGap = 0
    /\ secWords = << >>
    /\ folded = << >>
    /\ compared = << >>
    /\ secOut = << >>
    /\ eofMet = { }
    /\ walked = << >>
    /\ parsed = << >>
    /\ events = << >>
    /\ outMark = 0
    /\ fin = "none"
    /\ fout = "none"

BufferNext ==
    \/ DecodeVoiceLoop
    \/ DecodeReadNotes
    \/ DecodeEnterBars
    \/ DecodeReadBars
    \/ DecodeFinish

BufferSpec == BufferInit /\ [][BufferNext]_vars

\* C14 as stated: in decode a NOTES section whose count is above the
\* capacity of the note buffer ends the run in a capacity error before any
\* of its data words is stored, and no section stores more words than the
\* buffer holds (word j of the data goes to index j - 1).
C14_BufferCapacityChecked ==
    (consumer = "decode" /\ section[2] = "notes" /\ secWords # << >>) =>
        /\ Len(folded) <= NOTES_BUFFER_SIZE
        /\ SecCount > NOTES_BUFFER_SIZE =>
              /\ status = "err_capacity"
              /\ folded = << >>

---------------------------------------------------------------------------
(* Properties of the copy (tweak) *)

\* C15: when tweak is run with no tempo argument, then in every section, as
\* long as the run has not failed, the words written are the words read, in
\* the same order (count, data words, checksum), and they are what the
\* section has added to the output.
C15_VerbatimWithoutTempo ==
    (consumer = "tweak" /\ argc = 3 /\ status \in { "running", "ok" }) =>
        /\ secOut = secWords
        /\ pc \in { "notes", "bars" } =>
              out = SubSeq(out, 1, outMark) \o TapeWords(secWords)

C15_Witness ==
    /\ consumer = "tweak"
    /\ argc = 3
    /\ status = "ok"
    /\ meta.kind = "wf"
    /\ meta.voices[1] = VcTempo
    /\ meta.k = 2
    /\ Len(secOut) = 2

\* The words of a tape t from position p on, each with the blank frames
\* before it and inside it, and the blank frames after the last whole word
RECURSIVE Lex(_, _, _)
Lex(t, p, acc) ==
    LET r == Rpb(t, p) IN
    IF r.word = EOF32
    THEN [toks |-> acc, trail |-> r.gap_frames]
    ELSE Lex(t, r.pos, Append(acc, [gap |-> r.gap_frames,
                                    inner |-> r.inner_frames,
                                    word |-> r.word]))

\* Which words start a section: counts are followed by that many data
\* words and a checksum, NOTES and BARS in turn
RECURSIVE MarkStarts(_, _, _, _)
MarkStarts(toks, i, kind, acc) ==
    IF i > Len(toks) THEN acc
    ELSE MarkStarts(toks, i + toks[i].word + 2,
                    IF kind = "notes" THEN "bars" ELSE "notes",
                    [acc EXCEPT ![i] = kind])

---------------------------------------------------------------------------
(* peek_gap and the read that follows it, on their own *)

\* Frames and tape lengths peek_gap is exercised on
PeekFrames == { 0, 64, 129 }
MaxPeekLen == 6

PeekTapes == UNION { [1..n -> PeekFrames] : n \in 0..MaxPeekLen }

\* peek_gap lines 107-111: on an input that cannot seek ftell fails and
\* peek_gap returns EOF with nothing read and gap_frames not set
PeekGapOn(fp, p, seekable) ==
    IF seekable THEN PeekGap(fp, p)
    ELSE [eof |-> TRUE, gap_frames |-> UNINIT, pos |-> p, fetched |-> p,
          taken |-> 0]

PeekInit ==
    /\ tape \in PeekTapes
    /\ pos \in 0..Len(tape)
    /\ word_count \in { 0, 5 }
    /\ fin \in [seekable : BOOLEAN]
    /\ fout = "none"
    /\ pc = "peek"
    /\ consumer = "none"
    /\ argc = 0
    /\ argv = [tempo |-> 0, gap |-> 0]
    /\ tempo = NO_TEMPO
    /\ gap_length = DEFAULT_GAP_LENGTH
    /\ meta = [kind |-> "none"]
    /\ seen = 0
    /\ out = << >>
    /\ status = "running"
    /\ voice = 1
    /\ part_word_count = 0
    /\ total_word_count = UNINIT
    /\ checksum = 0
    /\ new_checksum = 0
    /\ notes = << >>
    /\ notes_count = 0
    /\ section = << 0, "none" >>
    /\ secGap = 0
    /\ secWords = << >>
    /\ folded = << >>
    /\ compared = << >>
    /\ secOut = << >>
    /\ eofMet = { }
    /\ walked = << >>
    /\ parsed = << >>
    /\ events = << >>
    /\ outMark = 0

peekVars == << consumer, argc, argv, tempo, gap_length, tape, meta, seen,
               out, status, voice, part_word_count, total_word_count,
               checksum, new_checksum, notes, notes_count, section, secGap,
               secWords, folded, compared, secOut, eofMet, walked, parsed,
               events, outMark, fin >>

\* peek_gap(fp, &gap_frames) with the file at pos
PeekCall ==
    /\ pc = "peek"
    /\ LET pk == PeekGapOn(tape, pos, fin.seekable) IN
       /\ pos' = pk.pos
       /\ fout' = [pos0 |-> pos, wc0 |-> word_count, pk |-> pk]
    /\ pc' = "peeked"
    /\ UNCHANGED << peekVars, word_count >>

\* read_next_word(fp, &word, &word_count, &gap_frames, 0) after the peek
PeekThenRead ==
    /\ pc = "peeked"
    /\ LET r == ReadNextWord(tape, pos, word_count) IN
       /\ pos' = r.pos
       /\ word_count' = r.word_count
       /\ fout' = [pos0 |-> fout.pos0, wc0 |-> fout.wc0, pk |-> fout.pk,
                   rd |-> r]
    /\ pc' = "peek_read"
    /\ UNCHANGED peekVars

PeekNext == PeekCall \/ PeekThenRead

PeekSpec == PeekInit /\ [][PeekNext]_vars

\* C17: after peek_gap the file position and the word index are what they
\* were before the call, whether it returned 0 or EOF; and when it returned
\* 0, the read_next_word that follows finds a whole word and counts the
\* same leading gap as the peek did (the gap it hands to its caller unless
\* it exits on an inner blank frame).
C17_PeekRestoresPosition ==
    /\ pc = "peeked" =>
          /\ pos = fout.pos0
          /\ word_count = fout.wc0
    /\ (pc = "peek_read" /\ ~fout.pk.eof) =>
          /\ ~fout.rd.eof
          /\ fout.rd.gap_frames = fout.pk.gap_frames
          /\ ~fout.rd.exit => word_count = fout.wc0 + 1

C17_Witness ==
    /\ pc = "peek_read"
    /\ ~fout.pk.eof
    /\ ~fout.rd.exit
    /\ fout.pos0 = 1
    /\ fout.pk.gap_frames = 2
    /\ fout.rd.word # 0

---------------------------------------------------------------------------
(* Properties of the note buffer (decode) *)

\* The NOTES count of the voice whose section is in progress, on the tape
VoiceNotesCount == Len(meta.voices[section[1]].notes)

\* C18 as stated: in decode every note buffer index read while a bar of a
\* voice is walked is below the NOTES count of that voice, so the entry was
\* written by the NOTES pass of the same voice; with a NOTES count of 0 no
\* entry is read.
C18_WalkReadsOwnNotes ==
    (consumer = "decode" /\ section[2] = "bars") =>
        \A i \in 1..Len(walked) : walked[i] < VoiceNotesCount

\* C19 as stated: when read_notes has finished a section of count n, the
\* note buffer holds its n data words at indices 0..n-1 in tape order and
\* notes_count is n; and a bar word other than the sentinel is rejected as
\* an index exactly when it is not less than the NOTES count of the voice.
C19_NoteCountIsCount ==
    consumer = "decode" =>
        /\ pc = "enter_bars" =>
              /\ SubSeq(notes, 1, SecCount)
                    = SubSeq(secWords, 2, SecCount + 1)
              /\ notes_count = SecCount
        /\ (/\ section[2] = "bars"
            /\ Len(secWords) >= 2
            /\ Len(secWords) <= SecCount + 1
            /\ secWords[Len(secWords)] # SENTINEL) =>
              (status = "err_index"
                   <=> secWords[Len(secWords)] >= VoiceNotesCount)

\* C20: a sentinel read as a data word of a BARS section ends a decode run
\* in the sentinel error exactly when it is not the last data word of the
\* section, and that error has no other cause; tweak writes the sentinel
\* like any other word, with no such error.
C20_SentinelOnlyLast ==
    /\ (/\ section[2] = "bars"
        /\ Len(secWords) >= 2
        /\ Len(secWords) <= SecCount + 1
        /\ secWords[Len(secWords)] = SENTINEL) =>
          /\ consumer = "decode" =>
                (status = "err_sentinel" <=> Len(secWords) # SecCount + 1)
          /\ consumer = "tweak" =>
                /\ status # "err_sentinel"
                /\ Len(secOut) = Len(secWords)
                /\ secOut[Len(secOut)] = SENTINEL
    /\ status = "err_sentinel" =>
          /\ consumer = "decode"
          /\ section[2] = "bars"
          /\ Len(secWords) \in 2..SecCount
          /\ secWords[Len(secWords)] = SENTINEL

C20_Witness ==
    /\ consumer = "decode"
    /\ status = "err_sentinel"
    /\ secWords = << 2, SENTINEL >>

---------------------------------------------------------------------------
(* parse_note and decode_tempo_quarter on their own *)

\* Every 18-bit word, by its fields: bits 13..17, the pitch field in bits
\* 7..12 and the duration field in bits 0..6
NoteFields == [hi : 0..31, p : 0..63, d : 0..127]

FieldsWord(f) == (f.hi * 8192) + (f.p * 128) + f.d

NoteInit ==
    /\ NoRun
    /\ out = << >>
    /\ pc = "note"
    /\ fin \in NoteFields
    /\ fout = "none"

\* parse_note(word, &note): it returns, or the division at line 141 traps
NoteParse ==
    /\ pc = "note"
    /\ LET note == ParseNote(FieldsWord(fin)) IN
       \E oc \in (IF note.div0 THEN { "note_crash", "note_parsed" }
                  ELSE { "note_parsed" }) :
          /\ pc' = oc
          /\ fout' = IF oc = "note_parsed" THEN note ELSE "none"
    /\ UNCHANGED << runVars, out, fin >>

\* decode_tempo_quarter(word), which read_notes calls for tempo words: it
\* returns, or the division at line 162 traps
TempoDecode ==
    /\ pc = "note"
    /\ IsTempoWord(FieldsWord(fin))
    /\ LET t == DecodeTempoQuarter(FieldsWord(fin)) IN
       \E oc \in (IF t.div0 THEN { "tempo_crash", "tempo_decoded" }
                  ELSE { "tempo_decoded" }) :
          /\ pc' = oc
          /\ fout' = IF oc = "tempo_decoded" THEN t ELSE "none"
    /\ UNCHANGED << runVars, out, fin >>

NoteNext == NoteParse \/ TempoDecode

NoteSpec == NoteInit /\ [][NoteNext]_vars

\* C21: for every word, whenever parse_note returns, the pitch it reports
\* is the field in bits 7..12 and the duration the field in bits 0..6;
\* pitch 0 and 1 are a rest with octave 0 and semitone 0; a pitch p >= 2
\* has a semitone in 0..11 and an octave >= 1 with
\* 12 * (octave - 1) + semitone = p - 2, so pitch 2 is octave 1 semitone 0.
C21_PitchMapping ==
    pc = "note_parsed" =>
        /\ fout.pitch = fin.p
        /\ fout.duration = fin.d
        /\ fin.p <= 1 =>
              /\ fout.rest
              /\ fout.octave = 0
              /\ fout.semi_tone = 0
        /\ fin.p >= 2 =>
              /\ ~fout.rest
              /\ fout.semi_tone \in 0..11
              /\ fout.octave >= 1
              /\ (12 * (fout.octave - 1)) + fout.semi_tone = fin.p - 2
        /\ fin.p = 2 => (fout.octave = 1 /\ fout.semi_tone = 0)

C21_Witness ==
    /\ pc = "note_parsed"
    /\ fin.p = 63
    /\ fin.d = 127
    /\ fin.hi = 31
    /\ fout.octave = 6
    /\ fout.semi_tone = 1

---------------------------------------------------------------------------
(* add_1s_complement on its own *)

\* The inner sum of line 128 with the carry taken from bit 17
EndAroundSumShift17(a, b) ==
    LET sum == a + b IN (sum % 262144) + (sum \div 131072)

\* (sum & 0777777) + (sum >> 18), before the final mask of line 128
EndAroundSum(a, b) ==
    LET sum == a + b IN (sum % 262144) + (sum \div 262144)

\* Second operands: with every first operand they give every sum that two
\* 18-bit operands can have, 0 .. 2 * 0777777
AddSeconds == { 0, 1, WORD_MASK }

AddInit ==
    /\ NoRun
    /\ out = << >>
    /\ pc = "add"
    /\ fin \in [a : 0..WORD_MASK, b : AddSeconds]
    /\ fout = "none"

\* add_1s_complement(a, b)
AddCall ==
    /\ pc = "add"
    /\ fout' = [inner |-> EndAroundSum(fin.a, fin.b),
                result |-> Add1sComplement(fin.a, fin.b)]
    /\ pc' = "added"
    /\ UNCHANGED << runVars, out, fin >>

AddNext == AddCall

AddSpec == AddInit /\ [][AddNext]_vars

\* C22: for 18-bit operands the masked sum plus the carry out of bit 17 is
\* below 2^18, so the final mask changes nothing and the result is an
\* 18-bit value; the carry is added exactly when the plain sum does not
\* fit 18 bits.
C22_NoSecondCarry ==
    pc = "added" =>
        /\ fout.inner \in 0..WORD_MASK
        /\ fout.result = fout.inner
        /\ fout.result = IF fin.a + fin.b > WORD_MASK
                         THEN fin.a + fin.b - WORD_MASK
                         ELSE fin.a + fin.b

C22_Witness ==
    /\ pc = "added"
    /\ fin.a = WORD_MASK
    /\ fin.b = WORD_MASK
    /\ fout.result = WORD_MASK

---------------------------------------------------------------------------
(* Arithmetic and termination of the runs *)

\* C23 as stated: in decode no word handed to parse_note, in the NOTES pass
\* or in a measure walk, makes it divide by zero, and no tempo word read as
\* a data word of a NOTES section makes decode_tempo_quarter divide by zero.
C23_NoDivisionByZero ==
    consumer = "decode" =>
        /\ \A i \in 1..Len(parsed) : ~ParseNote(parsed[i]).div0
        /\ (section[2] = "notes" /\ secWords # << >>) =>
              \A i \in 2..Min(Len(secWords), SecCount + 1) :
                  IsTempoWord(secWords[i]) =>
                      ~DecodeTempoQuarter(secWords[i]).div0

\* The runs with every enabled step eventually taken: a process that is
\* not blocked keeps executing
FairSpec == Spec /\ WF_vars(Next)

\* C24 as stated: every run eventually stops; a turn of a section loop that
\* does not leave the loop moves the input position forward; and in decode
\* the walk of a bar reads no more buffer entries than the voice has notes.
C24_EveryRunStops ==
    /\ <>(status # "running")
    /\ [][(pc \in { "notes", "bars" } /\ pc' = pc) => pos' > pos]_vars
    /\ []((consumer = "decode" /\ section[2] = "bars") =>
              Len(walked) <= VoiceNotesCount)

===========================================================================
